---- MODULE Spec2Model ----
(***************************************************************************)
(* couch_rs: the ChangesStream state machine of couch_rs/src/changes.rs,   *)
(* driven by a consumer (next, set_infinite, set_last_seq) against a       *)
(* CouchDB server whose _changes feed honours `since`; and the paginator   *)
(* Database::find_batched of couch_rs/src/database.rs (and of the legacy   *)
(* crate in src/), sending pages into a bounded channel.                   *)
(*                                                                         *)
(* The change log of the database is the sequence 1..logLen: event k has   *)
(* the cursor (seq) k and cursor 0 is the position before the first event. *)
(* A stream without a cursor (Option::None) has last_seq = None.           *)
(***************************************************************************)
EXTENDS Integers, Sequences, FiniteSets, TLC

\* ------------------------------------------------------------------ bounds
MaxLog == 3        \* change events the server ever has in its log
InitLog == 2       \* events already in the log when the stream is built
MaxReqs == 2       \* _changes requests one stream issues
MaxEmit == 3       \* Change lines the server writes to one stream
MaxSetSeq == 1     \* set_last_seq calls on one stream
MaxFetch == 3      \* _find requests one find_batched call issues
MaxRows == 2       \* documents in one page
MaxBookmarks == 2  \* distinct bookmarks the server hands out
MaxBudget == 2     \* the largest max_results argument

\* --------------------------------------------------------------- constants
COUCH_MAX_TIMEOUT == 60000
DefaultLimit == 1000

\* Option<T>
None == <<>>
Some(c) == <<c>>

VARIABLES
    state,       \* ChangesStreamState: "Idle" | "Requesting" | "Reading"
    last_seq,    \* Option<Value>: None or a cursor
    infinite,    \* bool
    params,      \* HashMap<String, String>: the base parameters
    inCall,      \* a next() call is in progress (its future not yet Ready)
    ret,         \* what the latest completed next() returned
    futDone,     \* the future held by Requesting has already returned Ready
    panicked,    \* poll_next panicked (future polled after completion)
    logLen,      \* length of the server's change log
    nreq,        \* number of _changes requests issued so far
    req,         \* the query parameters of the request issued last
    bodyPos,     \* log position the open response body has emitted up to
    body,        \* the open response body: "open", "finished" (the server has
                 \* written its Finished line), "timedout" (the deadline of
                 \* the request has passed: every further read times out)
    delivered,   \* cursors of the Change events next() has yielded, in order
    emitted,     \* cursors of the Change lines the server has emitted, in order
    ev,          \* what the step taken last was given: the call made, the
                 \* answer of the transport or the line of the server
    h,           \* history of the run (see WithParams)
    query,       \* find_batched: the FindQuery argument
    batch_size,  \* find_batched: the batch_size argument
    max_results, \* find_batched: the max_results argument
    capacity,    \* the capacity the channel was created with
    pc,          \* where find_batched is: "idle" (not called), "loop" (top of
                 \* the loop), "find" (awaiting find), "send" (awaiting
                 \* tx.send), "returned", "panicked"
    bookmark,    \* find_batched: Option<String>, the bookmark held
    results,     \* find_batched: the row counter
    all_docs,    \* find_batched: the page in hand while it is being sent
    returned,    \* None, or Some of the CouchResult<u64> find_batched returned
    chan,        \* the pages queued in the channel
    rx,          \* the receiver: "open", "dropped", "finished" (its loop on
                 \* recv() has seen None)
    txAlive,     \* the sender has not been dropped
    reqs,        \* the _find queries issued so far, in order
    resps,       \* what find() returned for them, in order
    sent,        \* the pages tx.send accepted, in order
    received     \* the pages rx.recv yielded, in order

\* the changes stream and its server, ev apart
feed == <<state, last_seq, infinite, params, inCall, ret, futDone, panicked,
          logLen, nreq, req, bodyPos, body, delivered, emitted, h>>

\* the changes stream and its server
changes == <<feed, ev>>

\* the paginator, its channel and its consumer
pager == <<query, batch_size, max_results, capacity, pc, bookmark, results,
           all_docs, returned, chan, rx, txAlive, reqs, resps, sent, received>>

vars == <<changes, pager>>

stream == <<state, last_seq, infinite, params>>
server == <<logLen, bodyPos, body, emitted>>

\* ------------------------------------------------------------ wire format
\* A line of the response body: the empty string, or a JSON object given by
\* the set of its fields; val is the cursor carried by seq / last_seq.
Line(empty, fields, val) == [empty |-> empty, fields |-> fields, val |-> val]

EmptyLine == Line(TRUE, {}, 0)
ChangeLine(s) == Line(FALSE, {"seq", "id", "changes"}, s)
ChangeLineDoc(s) == Line(FALSE, {"seq", "id", "changes", "deleted", "doc"}, s)
FinishedLine(s) == Line(FALSE, {"last_seq", "pending"}, s)
FinishedLineOld(s) == Line(FALSE, {"last_seq"}, s)
ErrorLine == Line(FALSE, {"error", "reason"}, 0)
PartialLine(s) == Line(FALSE, {"seq", "id"}, s)

\* serde_json::from_str::<Event>: untagged, Change tried before Finished;
\* seq, id, changes are required by ChangeEvent, last_seq by FinishedEvent.
DecodeSwapped(line) ==
    IF "last_seq" \in line.fields
    THEN [t |-> "Finished", seq |-> line.val]
    ELSE IF "seq" \in line.fields
         THEN [t |-> "Change", seq |-> line.val]
         ELSE [t |-> "Err", seq |-> 0]

DecodeFinishedAsChange(line) ==
    IF {"seq", "id", "changes"} \subseteq line.fields \/ "last_seq" \in line.fields
    THEN [t |-> "Change", seq |-> line.val]
    ELSE [t |-> "Err", seq |-> 0]

Decode(line) ==
    IF {"seq", "id", "changes"} \subseteq line.fields
    THEN [t |-> "Change", seq |-> line.val]
    ELSE IF "last_seq" \in line.fields
         THEN [t |-> "Finished", seq |-> line.val]
         ELSE [t |-> "Err", seq |-> 0]

\* ---------------------------------------------------- paginator: its data
\* Database::find_batched / get_all_batched: one call of the paginator, the
\* _find endpoint it queries, the mpsc channel it sends pages into and the
\* consumer holding the channel's receiver.

\* a FindQuery: the fields find_batched touches
FindQuery(limit, bm) == [limit |-> limit, bookmark |-> bm]

\* FindQuery::find_all
FindAll == FindQuery(None, None)

\* bookmarks the server hands out
BookmarkNames == {"b" \o ToString(k) : k \in 1 .. MaxBookmarks}

\* the queries a caller passes: find_all, and a query with a limit and a
\* bookmark of its own
Queries == {FindAll, FindQuery(Some(MaxRows + 1), Some("b1"))}

\* the batch_size arguments: the default, and a page size of its own
BatchSizes == {0, MaxRows}

\* mpsc::channel(capacity)
Capacities == {1, 2}

\* the result of find(): Ok(DocumentCollection) or Err(CouchError)
FindOk(rows, bm) == [ok |-> TRUE, total_rows |-> rows, bookmark |-> bm, err |-> ""]
FindErr(e) == [ok |-> FALSE, total_rows |-> 0, bookmark |-> None, err |-> e]

\* CouchResult<u64>
Ok(n) == [ok |-> TRUE, val |-> n, err |-> ""]
Err(e) == [ok |-> FALSE, val |-> 0, err |-> e]

\* a DocumentCollection sent through the channel; req is the number of the
\* request that fetched it
Page(i, docs) == [req |-> i, total_rows |-> docs.total_rows, bookmark |-> docs.bookmark]

\* the paginator with its arguments, before its first request (p = "loop"),
\* or not called at all (p = "idle")
Pager(q, bs, mr, cap, p) ==
    /\ query = q
    /\ batch_size = bs
    /\ max_results = mr
    /\ capacity = cap
    /\ pc = p
    /\ bookmark = None
    /\ results = 0
    /\ all_docs = None
    /\ returned = None
    /\ chan = <<>>
    /\ rx = "open"
    /\ txAlive = TRUE
    /\ reqs = <<>>
    /\ resps = <<>>
    /\ sent = <<>>
    /\ received = <<>>

\* ------------------------------------------------------------ construction
Cursors == 0 .. MaxLog

Ret(kind, seq) == [kind |-> kind, seq |-> seq]

\* HashMap::insert
Insert(m, k, v) == [x \in (DOMAIN m) \cup {k} |-> IF x = k THEN v ELSE m[x]]

\* the parameters ChangesStream::new builds
NewParams ==
    Insert(Insert(Insert(<<>>, "feed", "continuous"), "timeout", ToString(0)),
           "include_docs", "true")

\* a parameter map handed to with_params by another caller
OtherParams ==
    { Insert(Insert(<<>>, "feed", "longpoll"), "timeout", ToString(COUCH_MAX_TIMEOUT)) }

\* ChangesStream::with_params
WithParams(seed, p, n, viaNew) ==
    /\ state = "Idle"
    /\ infinite = FALSE
    /\ last_seq = seed
    /\ params = p
    /\ inCall = FALSE
    /\ ret = Ret("none", 0)
    /\ futDone = FALSE
    /\ panicked = FALSE
    /\ logLen = n
    /\ nreq = 0
    /\ req = <<>>
    /\ bodyPos = 0
    /\ body = "open"
    /\ delivered = <<>>
    /\ emitted = <<>>
    /\ ev = "init"
    /\ h = [seed |-> seed,          \* the cursor given at construction
            viaNew |-> viaNew,      \* built by ChangesStream::new
            terminal |-> FALSE,     \* next() has returned an error or end-of-stream
            eos |-> FALSE,          \* next() has returned end-of-stream
            seqSet |-> 0,           \* number of set_last_seq calls
            decoded |-> FALSE,      \* a Change or Finished line has been decoded
            absorbed |-> FALSE]     \* a timeout has been absorbed

\* ChangesStream::new (Database::changes)
New(seed, n) == WithParams(seed, NewParams, n, TRUE)

\* the cursors a stream is built with: none, the cursor of the first event,
\* the cursor of the last event of the log
Seeds == {None, Some(1), Some(InitLog)}

Init ==
    /\ \E seed \in Seeds :
        \/ New(seed, InitLog)
        \/ \E p \in OtherParams : WithParams(seed, p, InitLog, FALSE)
    /\ Pager(FindAll, 0, 0, 1, "idle")

\* ------------------------------------------------------------- the consumer
\* StreamExt::next(): start polling the stream
CallNext ==
    /\ UNCHANGED pager
    /\ ~inCall
    /\ ~panicked
    /\ inCall' = TRUE
    /\ ev' = "call"
    /\ UNCHANGED <<stream, server, ret, futDone, panicked, nreq, req, delivered, h>>

SetInfiniteKeepTimeout(b) ==
    /\ UNCHANGED pager
    /\ ~inCall
    /\ ~panicked
    /\ infinite' = b
    /\ ev' = IF b THEN "set_infinite(true)" ELSE "set_infinite(false)"
    /\ h' = h
    /\ UNCHANGED <<state, last_seq, params, server, inCall, ret, futDone, panicked,
                   nreq, req, delivered>>

\* ChangesStream::set_infinite
SetInfinite(b) ==
    /\ UNCHANGED pager
    /\ ~inCall
    /\ ~panicked
    /\ infinite' = b
    /\ params' = Insert(params, "timeout",
                        IF b THEN ToString(COUCH_MAX_TIMEOUT) ELSE ToString(0))
    /\ ev' = IF b THEN "set_infinite(true)" ELSE "set_infinite(false)"
    /\ h' = h
    /\ UNCHANGED <<state, last_seq, server, inCall, ret, futDone, panicked,
                   nreq, req, delivered>>

\* ChangesStream::set_last_seq
SetLastSeq(c) ==
    /\ UNCHANGED pager
    /\ ~inCall
    /\ ~panicked
    /\ h.seqSet < MaxSetSeq
    /\ last_seq' = c
    /\ ev' = "set_last_seq"
    /\ h' = [h EXCEPT !.seqSet = h.seqSet + 1]
    /\ UNCHANGED <<state, infinite, params, server, inCall, ret, futDone, panicked,
                   nreq, req, delivered>>

\* --------------------------------------------------------------- the server
\* another client writes a document: the change log grows by one event
LogAppend ==
    /\ UNCHANGED pager
    /\ logLen < MaxLog
    /\ logLen' = logLen + 1
    /\ ev' = "append"
    /\ h' = h
    /\ UNCHANGED <<stream, bodyPos, body, emitted, inCall, ret, futDone,
                   panicked, nreq, req, delivered>>

\* the server reads `since` back from the query string
ParseSince(q) ==
    IF "since" \in DOMAIN q
    THEN CHOOSE c \in Cursors : ToString(c) = q["since"]
    ELSE 0

\* ------------------------------------------------------ poll_next, by state
\* the query of the request: the base parameters, plus since when a cursor exists
RequestParamsNoSince(p, seq) == p

RequestParamsSinceOnly(p, seq) ==
    IF seq # None THEN Insert(<<>>, "since", ToString(seq[1])) ELSE <<>>

RequestParams(p, seq) ==
    IF seq # None THEN Insert(p, "since", ToString(seq[1])) ELSE p

\* Idle: build the request and move to Requesting
PollIdle ==
    /\ UNCHANGED pager
    /\ inCall
    /\ ~panicked
    /\ state = "Idle"
    /\ nreq < MaxReqs
    /\ nreq' = nreq + 1
    /\ req' = RequestParams(params, last_seq)
    /\ state' = "Requesting"
    /\ futDone' = FALSE
    /\ ev' = "idle"
    /\ UNCHANGED <<last_seq, infinite, params, server, inCall, ret, panicked,
                   delivered, h>>

\* next() returns Some(Err(..)): the match arm returns before self.state is
\* assigned, so the state is the one the step started in
ReturnErr(e) ==
    /\ ret' = Ret("err", 0)
    /\ inCall' = FALSE
    /\ ev' = e
    /\ h' = [h EXCEPT !.terminal = TRUE]
    /\ UNCHANGED <<stream, nreq, req, delivered, panicked>>

\* the errors send() fails with: a timeout, or another reqwest error (connect)
TransportErrors == {"transport_timeout", "transport"}

PollRequestingErrRetried(kind) ==
    /\ UNCHANGED pager
    /\ inCall
    /\ ~panicked
    /\ state = "Requesting"
    /\ ~futDone
    /\ IF kind = "transport_timeout" /\ infinite
       THEN /\ state' = "Idle"
            /\ ev' = kind
            /\ UNCHANGED <<last_seq, infinite, params, inCall, ret, futDone, panicked,
                           nreq, req, delivered, h>>
       ELSE /\ futDone' = TRUE
            /\ ReturnErr(kind)
    /\ UNCHANGED server

\* Requesting: the request fails in the transport (get_changes returns Err)
PollRequestingErr(kind) ==
    /\ UNCHANGED pager
    /\ inCall
    /\ ~panicked
    /\ state = "Requesting"
    /\ ~futDone
    /\ futDone' = TRUE
    /\ ReturnErr(kind)
    /\ UNCHANGED server

\* the status codes the server answers with
Statuses == {200, 404, 500}

IsSuccessAlways(code) == TRUE

\* StatusCode::is_success
IsSuccess(code) == code >= 200 /\ code < 300

\* Requesting: the response arrives; on success the body is opened as a stream
\* of lines, which the server starts after the request's since
PollRequestingOk(code) ==
    /\ UNCHANGED pager
    /\ inCall
    /\ ~panicked
    /\ state = "Requesting"
    /\ ~futDone
    /\ IF IsSuccess(code)
       THEN /\ state' = "Reading"
            /\ bodyPos' = ParseSince(req)
            /\ body' = "open"
            /\ ev' = IF code \in 200 .. 299 THEN "success" ELSE "status"
            /\ UNCHANGED <<last_seq, infinite, params, logLen, emitted, inCall, ret,
                           futDone, panicked, nreq, req, delivered, h>>
       ELSE /\ futDone' = TRUE
            /\ ReturnErr("status")
            /\ UNCHANGED server

\* Requesting: the future has already completed (next() returned its error and
\* the state kept it); polling an async fn after completion panics
PollRequestingDone ==
    /\ UNCHANGED pager
    /\ inCall
    /\ ~panicked
    /\ state = "Requesting"
    /\ futDone
    /\ panicked' = TRUE
    /\ inCall' = FALSE
    /\ ev' = "poll_done"
    /\ UNCHANGED <<stream, server, ret, futDone, nreq, req, delivered, h>>

PollReadingEofEnds ==
    /\ UNCHANGED pager
    /\ inCall
    /\ ~panicked
    /\ state = "Reading"
    /\ body # "timedout"
    /\ ret' = Ret("eos", 0)
    /\ inCall' = FALSE
    /\ ev' = "eof"
    /\ h' = [h EXCEPT !.terminal = TRUE, !.eos = TRUE]
    /\ UNCHANGED <<stream, server, futDone, panicked, nreq, req, delivered>>

\* Reading: the body is exhausted (lines yields None)
PollReadingEof ==
    /\ UNCHANGED pager
    /\ inCall
    /\ ~panicked
    /\ state = "Reading"
    /\ body # "timedout"
    /\ state' = "Idle"
    /\ ev' = "eof"
    /\ UNCHANGED <<last_seq, infinite, params, server, inCall, ret, futDone, panicked,
                   nreq, req, delivered, h>>

\* the errors the line stream yields: a reqwest timeout, another reqwest error,
\* an io::Error that wraps no reqwest error (invalid UTF-8 in a line)
IoErrors == {"timeout", "reqwest", "utf8"}

AbsorbedNever(kind, inf) == FALSE

AbsorbedAnyTimeout(kind, inf) == kind = "timeout"

\* the guard of the first error arm: reqwest_err.is_timeout() && self.infinite
Absorbed(kind, inf) == kind = "timeout" /\ inf

\* Reading: the line stream yields Some(Err(err))
PollReadingIoErr(kind) ==
    /\ UNCHANGED pager
    /\ inCall
    /\ ~panicked
    /\ state = "Reading"
    /\ body = "timedout" => kind = "timeout"
    /\ body' = IF kind = "timeout" THEN "timedout" ELSE body
    /\ IF Absorbed(kind, infinite)
       THEN /\ state' = "Idle"
            /\ ev' = kind
            /\ h' = [h EXCEPT !.absorbed = TRUE]
            /\ UNCHANGED <<last_seq, infinite, params, inCall, ret, nreq, req, delivered,
                           panicked>>
       ELSE ReturnErr(kind)
    /\ UNCHANGED <<logLen, bodyPos, emitted, futDone>>

\* the lines the server can write next into the open body: the next event of
\* the log, a heartbeat, the Finished line once the body has caught up with the
\* log, or a line that is no event (an error object, a truncated change)
ServerLine(line, kind, pos) == [line |-> line, kind |-> kind, pos |-> pos]

ServerLines ==
    IF body # "open" THEN {}
    ELSE {ServerLine(EmptyLine, "heartbeat", bodyPos),
          ServerLine(ErrorLine, "garbage", bodyPos),
          ServerLine(PartialLine(bodyPos), "garbage", bodyPos)}
         \cup (IF bodyPos < logLen
               THEN IF Len(emitted) < MaxEmit
                    THEN {ServerLine(l, "change", bodyPos + 1) :
                            l \in {ChangeLine(bodyPos + 1), ChangeLineDoc(bodyPos + 1)}}
                    ELSE {}
               ELSE {ServerLine(l, "finished", bodyPos) :
                        l \in {FinishedLine(bodyPos), FinishedLineOld(bodyPos)}})

SeqAfterChangeNone(cur, d) == None
SeqAfterChangeStale(cur, d) == cur

\* Change arm: self.last_seq = Some(event.seq.clone())
SeqAfterChange(cur, d) == Some(d.seq)

SeqAfterFinishedReset(cur, d) == None

\* Finished arm: self.last_seq = Some(event.last_seq.clone())
SeqAfterFinished(cur, d) == Some(d.seq)

EndsStreamAlways(inf) == TRUE

\* Finished arm: if !self.infinite { return Poll::Ready(None) }
EndsStream(inf) == ~inf

\* String::is_empty
IsEmpty(line) == line.empty

\* Reading: the line stream yields Some(Ok(line))
PollReadingLine(sl) ==
    /\ UNCHANGED pager
    /\ inCall
    /\ ~panicked
    /\ state = "Reading"
    /\ bodyPos' = sl.pos
    /\ body' = IF sl.kind = "finished" THEN "finished" ELSE "open"
    /\ emitted' = IF sl.kind = "change" THEN Append(emitted, sl.line.val) ELSE emitted
    /\ UNCHANGED <<logLen, futDone>>
    /\ IF IsEmpty(sl.line)
       THEN /\ ev' = sl.kind
            /\ UNCHANGED <<stream, inCall, ret, nreq, req, delivered, panicked, h>>
       ELSE LET d == Decode(sl.line) IN
            CASE d.t = "Change" ->
                    /\ last_seq' = SeqAfterChange(last_seq, d)
                    /\ ret' = Ret("change", d.seq)
                    /\ delivered' = Append(delivered, d.seq)
                    /\ inCall' = FALSE
                    /\ ev' = sl.kind
                    /\ h' = [h EXCEPT !.decoded = TRUE]
                    /\ UNCHANGED <<state, infinite, params, nreq, req, panicked>>
              [] d.t = "Finished" ->
                    /\ last_seq' = SeqAfterFinished(last_seq, d)
                    /\ h' = [h EXCEPT !.decoded = TRUE,
                                      !.terminal = h.terminal \/ EndsStream(infinite),
                                      !.eos = h.eos \/ EndsStream(infinite)]
                    /\ IF EndsStream(infinite)
                       THEN /\ ret' = Ret("eos", 0)
                            /\ inCall' = FALSE
                            /\ UNCHANGED state
                       ELSE /\ state' = "Idle"
                            /\ UNCHANGED <<ret, inCall>>
                    /\ ev' = sl.kind
                    /\ UNCHANGED <<infinite, params, nreq, req, delivered, panicked>>
              [] OTHER ->
                    ReturnErr(sl.kind)

PollNext ==
    \/ PollIdle
    \/ \E kind \in TransportErrors : PollRequestingErr(kind)
    \/ \E code \in Statuses : PollRequestingOk(code)
    \/ PollRequestingDone
    \/ PollReadingEof
    \/ \E kind \in IoErrors : PollReadingIoErr(kind)
    \/ \E sl \in ServerLines : PollReadingLine(sl)

\* ------------------------------------------------------------ specifications
\* a stream driven through next() and set_infinite()
Next ==
    \/ CallNext
    \/ \E b \in BOOLEAN : SetInfinite(b)
    \/ LogAppend
    \/ PollNext

Spec == Init /\ [][Next]_vars

\* the same, with a consumer that also calls set_last_seq()
NextSeq ==
    \/ Next
    \/ \E c \in {None} \cup {Some(k) : k \in 0 .. logLen} : SetLastSeq(c)

SpecSeq == Init /\ [][NextSeq]_vars

\* ================================================================= paginator
\* ----------------------------------------------------------- the _find server
\* what a _find request ends in: a transport error, a body that is no
\* FindResult, or a FindResult with its optional docs, error and bookmark
Raw(kind, docs, error, bm) == [kind |-> kind, docs |-> docs, error |-> error, bookmark |-> bm]

RawBookmarks == {None, Some("nil"), Some("")} \cup {Some(b) : b \in BookmarkNames}

\* docs: the documents of the page, design documents (_design/..) apart
ServerResponses(limit) ==
    {Raw("transport", None, FALSE, None), Raw("json", None, FALSE, None),
     Raw("body", None, TRUE, None), Raw("body", None, FALSE, None)}
    \cup {Raw("body", Some([plain |-> t[1], design |-> t[2]]), FALSE, t[3]) :
            t \in {u \in (0 .. MaxRows) \X (0 .. 1) \X RawBookmarks :
                        u[1] + u[2] <= limit}}

\* the filter of find(): documents whose id starts with '_' are removed
Documents(docs) == docs.plain

\* the bookmark of find()'s collection: "nil" and "" are no bookmark
ValidBookmark(rb) ==
    LET returned_bookmark == IF rb = None THEN "" ELSE rb[1] IN
    IF returned_bookmark # "nil" /\ returned_bookmark # ""
    THEN Some(returned_bookmark)
    ELSE None

\* what the server answered with: the error of the transport or of the
\* decoder, or the shape of the FindResult
Answer(raw) ==
    IF raw.kind # "body" THEN raw.kind
    ELSE IF raw.docs = None
         THEN IF raw.error THEN "error" ELSE "nothing"
         ELSE IF raw.docs[1].plain > 0 THEN "docs"
              ELSE IF raw.docs[1].design > 0 THEN "design_only" ELSE "no_docs"

\* Database::find
Find(raw) ==
    IF raw.kind # "body" THEN FindErr(raw.kind)
    ELSE IF raw.docs # None
         THEN FindOk(Documents(raw.docs[1]), ValidBookmark(raw.bookmark))
         ELSE IF raw.error THEN FindErr("couch")
              ELSE FindOk(0, None)

\* ------------------------------------------------------------- find_batched
\* let limit = if batch_size > 0 { batch_size } else { 1000 }
Limit(bs) == IF bs > 0 THEN bs ELSE DefaultLimit

SegmentQueryKeepLimit(q, bs, bm) == [q EXCEPT !.bookmark = bm]

\* the query of one request: query.limit = Some(limit), and
\* segment_query.bookmark = bookmark.clone()
SegmentQuery(q, bs, bm) == [q EXCEPT !.limit = Some(Limit(bs)), !.bookmark = bm]

\* the top of the loop: issue the next _find request
Request ==
    /\ pc = "loop"
    /\ Len(reqs) < MaxFetch
    /\ reqs' = Append(reqs, SegmentQuery(query, batch_size, bookmark))
    /\ pc' = "find"
    /\ UNCHANGED <<query, batch_size, max_results, capacity, bookmark, results,
                   all_docs, returned, chan, rx, txAlive, resps, sent, received>>
    /\ UNCHANGED changes

TxAfterReturnKept(alive) == alive

\* find_batched returns: its argument tx goes out of scope
TxAfterReturn(alive) == FALSE

\* the loop is left and find_batched returns r
Return(r) ==
    /\ pc' = "returned"
    /\ returned' = Some(r)
    /\ all_docs' = None
    /\ txAlive' = TxAfterReturn(txAlive)

BreakSomeLost(e) == Ok(0)

\* break Some(err), then Err(err)
BreakSome(e) == Err(e)

AdvancesIfSome(new, cur) == new # None

AdvancesNever(new, cur) == FALSE

\* all_docs.bookmark.is_some() && all_docs.bookmark != bookmark
Advances(new, cur) == new # None /\ new # cur

AccumulateLast(res, rows) == rows

\* results += all_docs.total_rows as u64
Accumulate(res, rows) == res + rows

NoMoreRowsUnlessBookmark(docs) == docs.total_rows = 0 /\ docs.bookmark = None

\* if all_docs.total_rows == 0 { break None }
NoMoreRows(docs) == docs.total_rows = 0

\* the request's future resolves: from the match on find()'s result down to
\* the send
Fetched(docs) ==
    /\ resps' = Append(resps, docs)
    /\ IF ~docs.ok
       THEN /\ Return(BreakSome(docs.err))
            /\ UNCHANGED <<bookmark, results>>
       ELSE IF NoMoreRows(docs)
            THEN /\ Return(Ok(results))
                 /\ UNCHANGED <<bookmark, results>>
            ELSE IF Advances(docs.bookmark, bookmark)
                 THEN /\ bookmark' = docs.bookmark
                      /\ results' = Accumulate(results, docs.total_rows)
                      /\ all_docs' = Some(Page(Len(reqs), docs))
                      /\ pc' = "send"
                      /\ UNCHANGED <<returned, txAlive>>
                 ELSE /\ Return(Ok(results))
                      /\ UNCHANGED <<bookmark, results>>
    /\ UNCHANGED <<query, batch_size, max_results, capacity, chan, rx, reqs,
                   sent, received>>
    /\ UNCHANGED feed

Response(raw) ==
    /\ pc = "find"
    /\ ev' = Answer(raw)
    /\ Fetched(Find(raw))

CanSendAlways(c, cap) == TRUE

\* Sender::send waits until the channel has room
CanSend(c, cap) == Len(c) < cap

PushFront(c, p) == <<p>> \o c

\* the channel is a queue
Push(c, p) == Append(c, p)

BudgetReachedStrict(mr, res) == mr > 0 /\ res > mr

\* max_results > 0 && results >= max_results
BudgetReached(mr, res) == mr > 0 /\ res >= mr

SendClosedErr(res) == Err("closed")

SendClosedZero(res) == Ok(0)

\* if let Err(_err) = tx.send(all_docs).await { break None }
SendClosed(res) == Ok(res)

\* tx.send(all_docs).await resolves, then the budget test
Send ==
    /\ pc = "send"
    /\ IF rx = "dropped"
       THEN /\ Return(SendClosed(results))
            /\ UNCHANGED <<chan, sent>>
       ELSE /\ CanSend(chan, capacity)
            /\ chan' = Push(chan, all_docs[1])
            /\ sent' = Append(sent, all_docs[1])
            /\ IF BudgetReached(max_results, results)
               THEN Return(Ok(results))
               ELSE /\ pc' = "loop"
                    /\ all_docs' = None
                    /\ UNCHANGED <<returned, txAlive>>
    /\ UNCHANGED <<query, batch_size, max_results, capacity, bookmark, results,
                   rx, reqs, resps, received>>
    /\ UNCHANGED changes

\* ------------------------------------------------ the consumer of the channel
\* rx.recv().await yields Some(all_docs)
Recv ==
    /\ rx = "open"
    /\ chan # <<>>
    /\ received' = Append(received, Head(chan))
    /\ chan' = Tail(chan)
    /\ UNCHANGED <<query, batch_size, max_results, capacity, pc, bookmark, results,
                   all_docs, returned, rx, txAlive, reqs, resps, sent>>
    /\ UNCHANGED changes

\* rx.recv().await yields None: the channel is empty and no sender is left;
\* the `while let` loop ends
RecvClosed ==
    /\ rx = "open"
    /\ chan = <<>>
    /\ ~txAlive
    /\ rx' = "finished"
    /\ UNCHANGED <<query, batch_size, max_results, capacity, pc, bookmark, results,
                   all_docs, returned, chan, txAlive, reqs, resps, sent, received>>
    /\ UNCHANGED changes

\* the consumer drops the receiver: the pages still queued are dropped with it
DropReceiver ==
    /\ rx = "open"
    /\ rx' = "dropped"
    /\ chan' = <<>>
    /\ UNCHANGED <<query, batch_size, max_results, capacity, pc, bookmark, results,
                   all_docs, returned, txAlive, reqs, resps, sent, received>>
    /\ UNCHANGED changes

\* one find_batched call with its consumer; the changes stream stays as built
InitPage ==
    /\ \E q \in Queries, bs \in BatchSizes, mr \in 0 .. MaxBudget, cap \in Capacities :
            Pager(q, bs, mr, cap, "loop")
    /\ New(None, InitLog)

NextPage ==
    \/ Request
    \/ \E raw \in ServerResponses(Limit(batch_size)) : Response(raw)
    \/ Send
    \/ Recv
    \/ RecvClosed
    \/ DropReceiver

SpecPage == InitPage /\ [][NextPage]_vars

\* ------------------------------------- the paginator of the legacy crate (src/)
\* self.find(&query): the request is built from query, not from segment_query
LegacyQuery(q, bs, bm) == [q EXCEPT !.limit = Some(Limit(bs))]

LegacyRequest ==
    /\ pc = "loop"
    /\ Len(reqs) < MaxFetch
    /\ reqs' = Append(reqs, LegacyQuery(query, batch_size, bookmark))
    /\ pc' = "find"
    /\ UNCHANGED <<query, batch_size, max_results, capacity, bookmark, results,
                   all_docs, returned, chan, rx, txAlive, resps, sent, received>>
    /\ UNCHANGED changes

\* a panic unwinds find_batched: no value is returned, tx is dropped
Panic ==
    /\ pc' = "panicked"
    /\ all_docs' = None
    /\ txAlive' = FALSE
    /\ UNCHANGED returned

\* the legacy find(): response.json().await.unwrap() panics on a body that is
\* no FindResult
LegacyResponse(raw) ==
    /\ pc = "find"
    /\ ev' = Answer(raw)
    /\ IF raw.kind = "json"
       THEN /\ Panic
            /\ resps' = Append(resps, FindErr("json"))
            /\ UNCHANGED <<query, batch_size, max_results, capacity, bookmark,
                           results, chan, rx, reqs, sent, received>>
            /\ UNCHANGED feed
       ELSE Fetched(Find(raw))

\* tx.send(all_docs).await.unwrap()
LegacySend ==
    /\ pc = "send"
    /\ IF rx = "dropped"
       THEN /\ Panic
            /\ UNCHANGED <<chan, sent>>
       ELSE /\ CanSend(chan, capacity)
            /\ chan' = Push(chan, all_docs[1])
            /\ sent' = Append(sent, all_docs[1])
            /\ IF BudgetReached(max_results, results)
               THEN Return(Ok(results))
               ELSE /\ pc' = "loop"
                    /\ all_docs' = None
                    /\ UNCHANGED <<returned, txAlive>>
    /\ UNCHANGED <<query, batch_size, max_results, capacity, bookmark, results,
                   rx, reqs, resps, received>>
    /\ UNCHANGED changes

NextLegacy ==
    \/ LegacyRequest
    \/ \E raw \in ServerResponses(Limit(batch_size)) : LegacyResponse(raw)
    \/ LegacySend
    \/ Recv
    \/ RecvClosed
    \/ DropReceiver

SpecLegacy == InitPage /\ [][NextLegacy]_vars

\* ------------------------------------------------------------------ claims
\* log position of a cursor; a stream without a cursor starts before event 1
Pos(c) == IF c = None THEN 0 ELSE c[1]

\* the events k+1 .. n of the log, in log order
Run(k, n) == [i \in 1 .. (IF n > k THEN n - k ELSE 0) |-> k + i]

\* C1: the Change events next() has yielded are exactly the Change lines the
\* server has emitted, in emission order; a heartbeat line yields nothing and
\* leaves last_seq and the Reading state as they are.
C1_ChangesInEmissionOrder ==
    /\ [](delivered = emitted)
    /\ [][ev' = "heartbeat" =>
            /\ state = "Reading" /\ state' = "Reading"
            /\ last_seq' = last_seq
            /\ delivered' = delivered
            /\ ret' = ret
            /\ inCall']_vars

C1_Witness ==
    /\ ev = "heartbeat"
    /\ Len(delivered) >= 2
    /\ delivered = emitted
    /\ inCall

C3_Resume ==
    (ev = "finished" /\ ret.kind = "eos" /\ ~inCall) =>
        /\ last_seq = Some(logLen)
        /\ delivered = Run(Pos(h.seed), logLen)

C3_Witness ==
    /\ ev = "finished"
    /\ ret.kind = "eos"
    /\ ~infinite
    /\ h.seed = Some(1)
    /\ logLen = 3
    /\ delivered = <<2, 3>>
    /\ nreq = 1

C5_TimeoutAbsorbed ==
    /\ [][(ev' = "timeout" /\ infinite) =>
            /\ state' = "Idle"
            /\ inCall'
            /\ ret' = ret
            /\ h'.terminal = h.terminal
            /\ last_seq' = last_seq
            /\ delivered' = delivered
            /\ nreq' = nreq]_vars
    /\ [][(ev' = "idle" /\ last_seq # None) =>
            /\ nreq' = nreq + 1
            /\ "since" \in DOMAIN req'
            /\ ParseSince(req') = last_seq[1]]_vars

C5_Witness ==
    /\ h.absorbed
    /\ ~h.terminal
    /\ infinite
    /\ ev = "change"
    /\ ret.kind = "change"
    /\ nreq = 2

\* C6: in non-infinite mode a decoded Finished line makes next() return
\* end-of-stream, and once end-of-stream has been returned the stream yields no
\* further event, also when next() is called again.
C6_NoEventAfterEnd ==
    /\ [][(ev' = "finished" /\ ~infinite) => (ret'.kind = "eos" /\ ~inCall')]_vars
    /\ [][h.eos => delivered' = delivered]_vars

\* C7: once next() has returned an error or end-of-stream, no later next() call
\* issues another request.
C7_NoRequestAfterTerminal == [][h.terminal => nreq' = nreq]_vars

\* C8: set_infinite(b) sets the flag to b and the timeout parameter to 60000 for
\* true and 0 for false; every request of a stream built with new() carries
\* timeout=60000 exactly when the flag is set as the request is issued.
C8_TimeoutFollowsInfinite ==
    /\ [][ev' \in {"set_infinite(true)", "set_infinite(false)"} =>
            /\ infinite' = (ev' = "set_infinite(true)")
            /\ "timeout" \in DOMAIN params'
            /\ params'["timeout"] = IF infinite' THEN "60000" ELSE "0"]_vars
    /\ [][(ev' = "idle" /\ h.viaNew) =>
            /\ "timeout" \in DOMAIN req'
            /\ req'["timeout"] = IF infinite THEN "60000" ELSE "0"]_vars

C8_Witness ==
    /\ ev = "idle"
    /\ h.viaNew
    /\ infinite
    /\ nreq = 2
    /\ req["timeout"] = "60000"

C10_NeverRewinds == [][Pos(last_seq') >= Pos(last_seq)]_vars

\* C10 as amended: on a stream whose set_last_seq has not been called, last_seq
\* never moves back to an earlier log position.
C10_AdvancesUnlessSet ==
    [][h'.seqSet = 0 => Pos(last_seq') >= Pos(last_seq)]_vars

C10_Witness ==
    /\ h.seqSet = 0
    /\ ev = "finished"
    /\ h.seed = Some(1)
    /\ nreq = 2
    /\ ParseSince(req) = 2
    /\ delivered = <<2, 3>>
    /\ last_seq = Some(3)

\* ------------------------------------------------------ claims: find_batched
\* the rows of a sequence of pages
RECURSIVE Rows(_)
Rows(s) == IF s = <<>> THEN 0 ELSE Head(s).total_rows + Rows(Tail(s))

\* the first n responses as the pages find_batched sends for them
Pages(n) == [i \in 1 .. n |-> Page(i, resps[i])]

\* the server has answered with non-empty pages under pairwise distinct
\* bookmarks and then with an empty page
Exhausted ==
    /\ resps # <<>>
    /\ \A i \in 1 .. Len(resps) : resps[i].ok
    /\ resps[Len(resps)].total_rows = 0
    /\ \A i \in 1 .. Len(resps) - 1 :
            resps[i].total_rows > 0 /\ resps[i].bookmark # None
    /\ \A i, j \in 1 .. Len(resps) - 1 :
            i # j => resps[i].bookmark # resps[j].bookmark

\* response i is a non-empty page without a bookmark, or with the bookmark
\* its request carried
Stale(i) ==
    /\ resps[i].ok
    /\ resps[i].total_rows > 0
    /\ resps[i].bookmark = None \/ resps[i].bookmark = reqs[i].bookmark

\* C11: with max_results 0, once the server has answered with non-empty pages
\* under pairwise distinct bookmarks and then an empty page, every non-empty
\* page has been sent exactly once, in order, no request follows the empty
\* page, find_batched has returned Ok(total) with total the sum of the rows
\* of the pages sent, and a consumer that has read the channel to its end
\* has received exactly those pages.
C11_PaginationExhaustion ==
    (max_results = 0 /\ Exhausted) =>
        /\ sent = Pages(Len(resps) - 1)
        /\ Len(reqs) = Len(resps)
        /\ returned = Some(Ok(Rows(sent)))
        /\ rx = "finished" => (received = sent /\ Rows(received) = returned[1].val)

C11_Witness ==
    /\ max_results = 0
    /\ Exhausted
    /\ Len(resps) = MaxFetch
    /\ rx = "finished"
    /\ Rows(received) >= 3

\* C12: with max_results > 0, the send that brings the rows sent to at least
\* max_results is the last one: right after it find_batched has returned
\* Ok(rows sent) and no request follows. Every page is sent with all the rows
\* find() returned for it, so the rows sent exceed max_results by less than
\* the rows of the last page; and a call that returned Ok with fewer rows
\* sent than max_results, its receiver still there, was stopped by the
\* server's last answer.
C12_BudgetRounding ==
    max_results > 0 =>
        /\ \A k \in 1 .. Len(sent) :
                Rows(SubSeq(sent, 1, k)) >= max_results =>
                    /\ k = Len(sent)
                    /\ Len(reqs) = k
                    /\ pc = "returned"
                    /\ returned = Some(Ok(Rows(sent)))
                    /\ Rows(sent) - max_results < sent[k].total_rows
        /\ \A k \in 1 .. Len(sent) :
                sent[k].total_rows = resps[sent[k].req].total_rows
        /\ (pc = "returned" /\ returned[1].ok /\ rx # "dropped"
                /\ Rows(sent) < max_results) =>
                    Len(resps) = Len(sent) + 1

C12_Witness ==
    /\ max_results = 2
    /\ pc = "returned"
    /\ Len(sent) = 2
    /\ Rows(sent) = 3
    /\ returned = Some(Ok(3))

\* C13: a non-empty response without a bookmark, or with the bookmark its
\* request carried, ends the call: find_batched has returned Ok, the page is
\* not among the pages sent, the value returned is the sum of the rows of the
\* pages sent before (the page's rows are not in it), and no request follows.
C13_StaleBookmarkHalts ==
    \A i \in 1 .. Len(resps) :
        Stale(i) =>
            /\ pc = "returned"
            /\ returned = Some(Ok(Rows(sent)))
            /\ \A k \in 1 .. Len(sent) : sent[k].req # i
            /\ Len(sent) = i - 1
            /\ Len(reqs) = i

C13_Witness ==
    /\ Len(resps) = 2
    /\ Stale(2)
    /\ resps[2].bookmark # None
    /\ Len(sent) = 1
    /\ pc = "returned"

\* C14: a send made after the receiver was dropped ends the call with Ok:
\* the step taken by find_batched while it awaits the send with the receiver
\* gone returns Ok, issues no request, sends nothing and leaves the pages the
\* consumer received as they are; after the return no request is issued.
C14_Cancellation ==
    [][/\ (pc = "send" /\ rx = "dropped") =>
            /\ pc' = "returned"
            /\ returned' # None
            /\ returned'[1].ok
            /\ reqs' = reqs
            /\ sent' = sent
            /\ received' = received
       /\ pc = "returned" => (reqs' = reqs /\ pc' = "returned")]_vars

C14_Witness ==
    /\ pc = "returned"
    /\ rx = "dropped"
    /\ received # <<>>
    /\ Len(resps) = Len(sent) + 1
    /\ resps[Len(resps)].ok
    /\ resps[Len(resps)].total_rows > 0
    /\ Advances(resps[Len(resps)].bookmark, reqs[Len(resps)].bookmark)

\* C15: when the k-th fetch fails, find_batched has returned that error, the
\* pages sent are exactly the pages of the k-1 earlier responses, no request
\* follows, nothing but whole pages of successful fetches is in the channel,
\* and as long as the receiver is not dropped the pages sent are those
\* received followed by those still queued.
C15_ErrorAbort ==
    \A k \in 1 .. Len(resps) :
        ~resps[k].ok =>
            /\ pc = "returned"
            /\ returned = Some(Err(resps[k].err))
            /\ Len(reqs) = k
            /\ sent = Pages(k - 1)
            /\ \A i \in 1 .. Len(sent) : resps[sent[i].req].ok
            /\ rx # "dropped" => received \o chan = sent

C15_Witness ==
    /\ Len(resps) = 2
    /\ ~resps[2].ok
    /\ returned = Some(Err(resps[2].err))
    /\ Len(sent) = 1
    /\ rx = "finished"
    /\ received = sent

\* C16: every request has the limit batch_size, or 1000 when batch_size is 0,
\* whatever the limit of the query passed in; the first request has no
\* bookmark and every later one has the bookmark of the response before it.
C16_RequestShape ==
    \A i \in 1 .. Len(reqs) :
        /\ reqs[i].limit = Some(IF batch_size > 0 THEN batch_size ELSE 1000)
        /\ reqs[i].bookmark = IF i = 1 THEN None ELSE resps[i - 1].bookmark

C16_Witness ==
    /\ batch_size = 0
    /\ query.limit # None
    /\ query.bookmark # None
    /\ Len(reqs) = 3
    /\ reqs[3].bookmark # reqs[2].bookmark

\* C17: at most one request is outstanding; request i+1 is issued only after
\* page i was sent; the channel never holds more pages than its capacity; and
\* while the receiver is there, the non-empty pages fetched and not yet
\* received are at most capacity + 1.
C17_Backpressure ==
    /\ Len(reqs) - Len(resps) \in {0, 1}
    /\ (pc = "find") = (Len(reqs) = Len(resps) + 1)
    /\ Len(reqs) <= Len(sent) + 1
    /\ pc = "send" => Len(reqs) = Len(sent) + 1
    /\ Len(chan) <= capacity
    /\ rx # "dropped" =>
            Cardinality({i \in 1 .. Len(resps) : resps[i].ok /\ resps[i].total_rows > 0})
                - Len(received) <= capacity + 1

C17_Witness ==
    /\ pc = "send"
    /\ rx = "open"
    /\ Len(chan) = capacity
    /\ Len(reqs) = 2
    /\ received = <<>>

\* C18: the i-th page sent is the page of the i-th request; as long as the
\* receiver is not dropped the pages received, followed by the pages queued,
\* are the pages sent, in the same order; and each page sent after another
\* was fetched with the bookmark of the page before it, which differs from
\* the bookmark that page was fetched with.
C18_PageOrdering ==
    /\ \A i \in 1 .. Len(sent) : sent[i].req = i
    /\ Len(received) <= Len(sent)
    /\ received = SubSeq(sent, 1, Len(received))
    /\ rx # "dropped" => received \o chan = sent
    /\ \A i \in 1 .. Len(sent) - 1 :
            /\ reqs[sent[i + 1].req].bookmark = sent[i].bookmark
            /\ reqs[sent[i + 1].req].bookmark # reqs[sent[i].req].bookmark

C18_Witness ==
    /\ Len(received) = 2
    /\ received[1].req = 1
    /\ received[2].req = 2
    /\ received[1].bookmark # received[2].bookmark

\* C19: once find_batched has returned, the sender is dropped; a consumer
\* whose loop on recv() has ended has received every page that was sent; and
\* after the return a consumer in its loop can always take a step, each step
\* taking a page off the channel or ending the loop, so the loop ends after
\* at most as many steps as pages are queued, plus one.
C19_ChannelClosure ==
    /\ [](/\ pc = "returned" => ~txAlive
          /\ rx = "finished" => (pc = "returned" /\ chan = <<>> /\ received = sent)
          /\ (pc = "returned" /\ rx = "open") => (chan # <<>> \/ ENABLED RecvClosed))
    /\ [][(pc = "returned" /\ rx = "open") =>
                (rx' # "open" \/ Len(chan') < Len(chan))]_vars

C19_Witness ==
    /\ rx = "finished"
    /\ returned # None
    /\ ~returned[1].ok
    /\ Len(received) = 2

\* C20: in the legacy crate every request after the first carries the
\* bookmark of the response before it.
C20_LegacyFollowsBookmarks ==
    \A i \in 2 .. Len(reqs) : reqs[i].bookmark = resps[i - 1].bookmark

\* ------------------------------------------------- claims: the stream, again
\* the request a step has just issued is the base parameters plus, when the
\* stream had a cursor, since = that cursor
CarriesCursor ==
    /\ \A k \in DOMAIN params : k \in DOMAIN req' /\ req'[k] = params[k]
    /\ DOMAIN req' \subseteq (DOMAIN params) \cup {"since"}
    /\ last_seq # None =>
            ("since" \in DOMAIN req' /\ req'["since"] = ToString(last_seq[1]))
    /\ last_seq = None => "since" \notin DOMAIN req'

\* C21 as stated: each request issued from Idle is the base parameters plus
\* since = last_seq, and it has no since exactly when the stream was built
\* without a cursor and no Change or Finished line has been decoded yet.
C21_NoSinceIffUnseeded ==
    [][ev' = "idle" =>
            /\ CarriesCursor
            /\ ("since" \notin DOMAIN req') <=> (h.seed = None /\ ~h.decoded)]_vars

\* C21, amended: each request issued from Idle is the base parameters plus
\* since = the current last_seq, and it has no since exactly when the current
\* last_seq is None; on a stream whose set_last_seq was never called that is
\* exactly when the stream was built without a cursor and no Change or
\* Finished line has been decoded yet.
C21_NoSinceIffNoCursor ==
    [][ev' = "idle" =>
            /\ CarriesCursor
            /\ ("since" \notin DOMAIN req') <=> (last_seq = None)
            /\ h.seqSet = 0 =>
                    ((last_seq = None) <=> (h.seed = None /\ ~h.decoded))]_vars

C21_Witness ==
    /\ ev = "idle"
    /\ nreq = 2
    /\ h.decoded
    /\ h.seqSet > 0
    /\ last_seq = None
    /\ "since" \notin DOMAIN req
    /\ "feed" \in DOMAIN req

\* C22: a timeout raised while reading lines in non-infinite mode, and any
\* other error raised while reading lines in either mode, makes next() return
\* an error: the call ends, the stream does not go back to Idle, no request
\* is issued, no event is yielded and last_seq stays.
C22_ReadErrorsFatal ==
    [][((ev' = "timeout" /\ ~infinite) \/ ev' \in {"reqwest", "utf8"}) =>
            /\ state = "Reading"
            /\ state' = "Reading"
            /\ ret'.kind = "err"
            /\ ~inCall'
            /\ h'.terminal
            /\ nreq' = nreq
            /\ delivered' = delivered
            /\ last_seq' = last_seq]_vars

C22_Witness ==
    /\ ev = "timeout"
    /\ ~infinite
    /\ ret.kind = "err"
    /\ ~inCall
    /\ state = "Reading"
    /\ delivered # <<>>

\* C23: when the body ends, in either mode, the stream goes from Reading to
\* Idle inside the same next() call: nothing is returned, nothing is yielded
\* and last_seq stays; and the only step a call takes from Idle issues a
\* request that carries since = last_seq (no since without a cursor).
C23_BodyExhaustion ==
    /\ [][ev' = "eof" =>
            /\ state = "Reading"
            /\ state' = "Idle"
            /\ inCall'
            /\ ret' = ret
            /\ h' = h
            /\ nreq' = nreq
            /\ delivered' = delivered
            /\ last_seq' = last_seq]_vars
    /\ [][(state = "Idle" /\ inCall /\ state' # state) =>
            /\ state' = "Requesting"
            /\ inCall'
            /\ nreq' = nreq + 1
            /\ CarriesCursor]_vars

C23_Witness ==
    /\ ev = "idle"
    /\ state = "Requesting"
    /\ nreq = 2
    /\ ~infinite
    /\ ~h.absorbed
    /\ ~h.terminal
    /\ delivered # <<>>
    /\ "since" \in DOMAIN req
    /\ last_seq = Some(ParseSince(req))

\* C26: a Finished line yields no item: it sets last_seq to its last_seq and
\* then ends the stream (non-infinite) or sends the call back to Idle
\* (infinite); every item yielded is the event of a Change line.
C26_OnlyChangesYielded ==
    /\ [][ev' = "finished" =>
            /\ delivered' = delivered
            /\ last_seq' = Some(bodyPos')
            /\ IF infinite
               THEN state' = "Idle" /\ inCall' /\ ret' = ret
               ELSE ret'.kind = "eos" /\ ~inCall']_vars
    /\ [][delivered' # delivered =>
            /\ ev' = "change"
            /\ ret'.kind = "change"
            /\ ~inCall'
            /\ delivered' = Append(delivered, ret'.seq)
            /\ emitted' = Append(emitted, ret'.seq)]_vars

C26_Witness ==
    /\ ev = "finished"
    /\ infinite
    /\ state = "Idle"
    /\ inCall
    /\ last_seq = Some(2)
    /\ delivered = <<2>>

\* C27: a next() call returns end-of-stream only in the step that decodes a
\* Finished line while the infinite flag is false.
C27_NoEndInInfinite ==
    [][(ret'.kind = "eos" /\ (ret.kind # "eos" \/ (inCall /\ ~inCall'))) =>
            /\ ev' = "finished"
            /\ ~infinite
            /\ ~infinite'
            /\ inCall
            /\ ~inCall']_vars

C27_Witness ==
    /\ ev = "finished"
    /\ ret.kind = "eos"
    /\ ~inCall
    /\ ~infinite
    /\ h.absorbed

\* C28: a transport error of the request, a timeout included, makes next()
\* return an error in either mode: the stream stays in Requesting, does not
\* go back to Idle and issues no request.
C28_RequestErrorFatal ==
    [][ev' \in TransportErrors =>
            /\ state = "Requesting"
            /\ state' = "Requesting"
            /\ ret'.kind = "err"
            /\ ~inCall'
            /\ h'.terminal
            /\ nreq' = nreq
            /\ delivered' = delivered
            /\ last_seq' = last_seq]_vars

C28_Witness ==
    /\ ev = "transport_timeout"
    /\ infinite
    /\ ret.kind = "err"
    /\ ~inCall
    /\ state = "Requesting"

\* --------------------------------------------- claims: find_batched, again
\* the last response was accepted and find_batched returned without sending
\* its page: the send failed
SendFailed ==
    /\ pc = "returned"
    /\ resps # <<>>
    /\ resps[Len(resps)].ok
    /\ resps[Len(resps)].total_rows > 0
    /\ resps[Len(resps)].bookmark # None
    /\ resps[Len(resps)].bookmark # reqs[Len(resps)].bookmark
    /\ Len(sent) = Len(resps) - 1

\* response i ends the pagination: an error, an empty page, a page without a
\* bookmark or with the bookmark its request carried
Stops(i) ==
    \/ ~resps[i].ok
    \/ resps[i].total_rows = 0
    \/ resps[i].bookmark = None
    \/ resps[i].bookmark = reqs[i].bookmark

\* C24: a response that has zero rows once find() has removed the documents
\* whose id starts with '_' ends the call, whatever bookmark it carries:
\* find_batched has returned Ok(rows of the pages sent), the page is not sent,
\* the bookmark held is still the one the request carried and no request
\* follows. A body of design documents only is such a response.
C24_EmptyPageStops ==
    /\ \A i \in 1 .. Len(resps) :
            (resps[i].ok /\ resps[i].total_rows = 0) =>
                /\ pc = "returned"
                /\ returned = Some(Ok(Rows(sent)))
                /\ Len(sent) = i - 1
                /\ Len(reqs) = i
                /\ bookmark = reqs[i].bookmark
    /\ ev \in {"design_only", "no_docs", "nothing"} =>
            /\ resps # <<>>
            /\ resps[Len(resps)].ok
            /\ resps[Len(resps)].total_rows = 0

C24_Witness ==
    /\ ev = "design_only"
    /\ Len(resps) = 2
    /\ resps[2].bookmark # None
    /\ resps[2].bookmark # reqs[2].bookmark
    /\ pc = "returned"
    /\ bookmark = reqs[2].bookmark
    /\ Len(sent) = 1

\* C25: in the legacy crate the step find_batched takes while it awaits a
\* send with the receiver dropped returns Ok.
C25_LegacySilentCancel ==
    [][(pc = "send" /\ rx = "dropped") =>
            /\ pc' = "returned"
            /\ returned' # None
            /\ returned'[1].ok]_vars

\* C29: when find_batched has returned Ok after a failed send, the receiver
\* was dropped and the value is the rows of the pages sent plus the rows of
\* the page that was not sent; in every other Ok outcome the value is the
\* rows of the pages sent.
C29_ReturnCountsUnsent ==
    (returned # None /\ returned[1].ok) =>
        IF SendFailed
        THEN /\ rx = "dropped"
             /\ returned[1].val = Rows(sent) + resps[Len(resps)].total_rows
        ELSE returned[1].val = Rows(sent)

C29_Witness ==
    /\ SendFailed
    /\ Len(sent) = 1
    /\ Rows(sent) = 1
    /\ resps[2].total_rows = 2
    /\ returned = Some(Ok(3))

\* C30: with max_results 0, a response that is an error, an empty page, a
\* page without a bookmark or with the bookmark just sent ends the call at
\* once: find_batched has returned and no request follows it. Every other
\* response, one that repeats an older bookmark included, is accepted: its
\* page is sent, or is the page in hand at the send, or its send failed on a
\* dropped receiver. A producer at the send whose consumer holds the
\* receiver is never stuck: the send or a receive is enabled, and a receive
\* makes room for the send.
C30_Termination ==
    /\ [](max_results = 0 =>
            /\ \A i \in 1 .. Len(resps) :
                    IF Stops(i)
                    THEN pc = "returned" /\ Len(reqs) = i /\ Len(sent) = i - 1
                    ELSE \/ Len(sent) >= i
                         \/ Len(reqs) = i /\ pc = "send"
                         \/ Len(reqs) = i /\ pc = "returned" /\ rx = "dropped"
            /\ (pc = "send" /\ rx = "open") => ENABLED (Send \/ Recv))
    /\ [][(max_results = 0 /\ pc = "send" /\ received' # received) =>
                Len(chan') < capacity]_vars

C30_Witness ==
    /\ max_results = 0
    /\ Len(resps) = 3
    /\ resps[3].bookmark # None
    /\ resps[3].bookmark = resps[1].bookmark
    /\ Len(sent) = 3
    /\ received = sent

====
